---- MODULE Spec2Model ----
(***************************************************************************)
(* The room/session state machine of app.py: the three in-memory           *)
(* registries (rooms, sid_map, player_meta) and the four Socket.IO         *)
(* handlers (join, pos_update, leave, disconnect) that mutate them and     *)
(* emit notifications.                                                     *)
(*                                                                         *)
(* Representation.                                                         *)
(*  - A Python str is a sequence of tokens: the token " " is one           *)
(*    whitespace character, any other token is a run of non-whitespace     *)
(*    characters.  "" is << >>, " lobby" is << " ", "lobby" >>.            *)
(*  - A JSON value of an event payload is a record [t, s, n]: t is its     *)
(*    type ("null", "str", "num", "big"), s its text, n its number.        *)
(*    "big" is an integer literal beyond the range of a float.             *)
(*  - A dict is a function whose DOMAIN is its key set.                    *)
(*  - A float is modelled by an integer.                                   *)
(***************************************************************************)
EXTENDS Integers, Sequences, FiniteSets, TLC

(* ---------------------------- bounds ----------------------------------- *)

\* number of player ids uuid4 hands out in a run
MaxPlayers == 2

\* the connection handles (request.sid values) of a run: two connections,
\* all open at the start; a closed one sends nothing more
Sids == {"sidA", "sidB"}

(* ------------------------ JSON values and dicts ------------------------ *)

None == [t |-> "null", s |-> << >>, n |-> 0]
Str(s) == [t |-> "str", s |-> s, n |-> 0]
Num(n) == [t |-> "num", s |-> << >>, n |-> n]
Big == [t |-> "big", s |-> << >>, n |-> 0]

\* dict.get(key) / dict.get(key, default)
Get(d, k) == IF k \in DOMAIN d THEN d[k] ELSE None
GetOr(d, k, default) == IF k \in DOMAIN d THEN d[k] ELSE default

\* d[k] = v  and  del d[k] / d.pop(k, None)
Put(d, k, v) == [z \in DOMAIN d \cup {k} |-> IF z = k THEN v ELSE d[z]]
Del(d, k) == [z \in DOMAIN d \ {k} |-> d[z]]

\* Python truthiness of a JSON value (the `if value` and `or` of the source)
Truthy(v) ==
    CASE v.t = "null" -> FALSE
      [] v.t = "str" -> v.s # << >>
      [] v.t = "num" -> v.n # 0
      [] OTHER -> TRUE

isinstance_str(v) == v.t = "str"

\* str(value): the text of a JSON value
str(v) ==
    CASE v.t = "str" -> v.s
      [] v.t = "num" -> << ToString(v.n) >>
      [] v.t = "big" -> << "1000000000000" >>
      [] OTHER -> << "None" >>

\* str.strip(): drop leading and trailing whitespace
RECURSIVE lstrip(_)
lstrip(s) == IF s # << >> /\ Head(s) = " " THEN lstrip(Tail(s)) ELSE s

RECURSIVE rstrip(_)
rstrip(s) ==
    IF s # << >> /\ s[Len(s)] = " " THEN rstrip(SubSeq(s, 1, Len(s) - 1)) ELSE s

strip(s) == rstrip(lstrip(s))

\* the numerals the model's payloads use, and the float each denotes
Numerals == {"0", "1", "2"}
NumeralValue(tok) == CASE tok = "0" -> 0 [] tok = "1" -> 1 [] OTHER -> 2

\* float(v): [r |-> "ok", v |-> the float], or the exception it raises:
\* "caught" is TypeError / ValueError, "overflow" is OverflowError.
float(v) ==
    CASE v.t = "num" -> [r |-> "ok", v |-> v.n]
      [] v.t = "big" -> [r |-> "overflow", v |-> 0]
      [] v.t = "null" -> [r |-> "caught", v |-> 0]
      [] OTHER ->
            LET body == strip(v.s)
            IN  IF Len(body) = 1 /\ body[1] \in Numerals
                THEN [r |-> "ok", v |-> NumeralValue(body[1])]
                ELSE [r |-> "caught", v |-> 0]

(* ----------------------------- constants ------------------------------- *)

\* FOLDERS, in the insertion order of the dict literal
FolderList ==
    << << "amarelo", "#FFD400" >>,
       << "azul_escuro", "#003366" >>,
       << "ciano", "#00FFFF" >>,
       << "laranja", "#FF8C00" >>,
       << "marron", "#8B4513" >>,
       << "verde_claro", "#66FF66" >>,
       << "verde_escuro", "#006400" >>,
       << "vermelho", "#C50A0A" >> >>

\* `k in FOLDERS`, FOLDERS[k], next(iter(FOLDERS.keys()))
FolderKeys == { << FolderList[i][1] >> : i \in 1..Len(FolderList) }
FOLDERS(k) ==
    LET i == CHOOSE j \in 1..Len(FolderList) : << FolderList[j][1] >> = k
    IN  FolderList[i][2]
FirstFolder == << FolderList[1][1] >>

(* ------------------------------- state --------------------------------- *)

VARIABLES
    rooms,        \* room id -> (player id -> RoomPlayerState)
    sid_map,      \* sid -> <<room id, player id>>
    player_meta,  \* player id -> [name, folder, color_hex]
    subs,         \* the transport's room subscriptions: set of <<sid, room id>>
    conn,         \* the sids whose connection is open
    next_id,      \* the index of the next player id uuid4 returns
    out,          \* what the last handler emitted, in order
    ev,           \* the last event handled: [op, sid, data]
    joined_in,    \* history: player id -> [sid, room] of the join that made it,
                  \*          kept until the player is deleted from its room
    last_join,    \* history: sid -> the player id of its latest registered join
    removed,      \* history: the player ids deleted from their room
    left_count,   \* history: player id -> number of player_left emitted for it
    raised        \* history: the transport call of the last handler raised

vars == << rooms, sid_map, player_meta, subs, conn, next_id, out, ev,
           joined_in, last_join, removed, left_count, raised >>

regs == << rooms, sid_map, player_meta >>

\* str(uuid.uuid4()): a player id never handed out before
Uuid(k) == << "u" \o ToString(k) >>

Init ==
    /\ rooms = << >>
    /\ sid_map = << >>
    /\ player_meta = << >>
    /\ subs = {}
    /\ conn = Sids
    /\ next_id = 1
    /\ out = << >>
    /\ ev = [op |-> "start", sid |-> "", data |-> << >>]
    /\ joined_in = << >>
    /\ last_join = << >>
    /\ removed = {}
    /\ left_count = << >>
    /\ raised = FALSE

(* ------------------------------ helpers -------------------------------- *)

\* get_player_data(player_id)
get_player_data(player_id) ==
    IF player_id \in DOMAIN player_meta THEN {player_meta[player_id]} ELSE {}

\* mutant: the value is not stripped
clean_input_string_unstripped(value, default) ==
    IF Truthy(value) THEN str(value) ELSE default

\* clean_input_string(value, default): str(value).strip() if value else default
clean_input_string(value, default) ==
    IF Truthy(value) THEN strip(str(value)) ELSE default

\* mutant: the sid_map cleanup is left out
sids_to_remove_none(S, room, player_id) == {}

\* mutant: every sid bound to the room is removed
sids_to_remove_room(S, room, player_id) ==
    {s \in DOMAIN S : S[s][1] = room}

\* sids_to_remove of pop_player_from_structures: the sids bound to the pair
sids_to_remove(S, room, player_id) ==
    {s \in DOMAIN S : S[s] = << room, player_id >>}

\* mutant: the player's room entry is not deleted
pop_player_keeps_state(R, S, M, room, player_id) ==
    IF room \in DOMAIN R /\ player_id \in DOMAIN R[room]
    THEN [rooms |-> R,
          sid_map |-> [s \in DOMAIN S \ sids_to_remove(S, room, player_id) |-> S[s]],
          player_meta |-> Del(M, player_id)]
    ELSE [rooms |-> R, sid_map |-> S, player_meta |-> M]

\* pop_player_from_structures(room, player_id) on the registries R (rooms),
\* S (sid_map) and M (player_meta): the registries after the call
pop_player_from_structures(R, S, M, room, player_id) ==
    IF room \in DOMAIN R /\ player_id \in DOMAIN R[room]
    THEN LET R1 == [R EXCEPT ![room] = Del(@, player_id)]
             gone == sids_to_remove(S, room, player_id)
         IN  [rooms |-> IF DOMAIN R1[room] = {} THEN Del(R1, room) ELSE R1,
              sid_map |-> [s \in DOMAIN S \ gone |-> S[s]],
              player_meta |-> Del(M, player_id)]
    ELSE [rooms |-> R, sid_map |-> S, player_meta |-> M]

(* ----------------------------- transport ------------------------------- *)

\* join_room(room) / leave_room(room) for the sending connection
join_room(sid, room) == subs \cup {<< sid, room >>}
leave_room(sid, room) == subs \ {<< sid, room >>}

\* emit(event, payload, to=sid): to the one connection
emit_to(event, sid, room, player_id, body) ==
    [event |-> event, to |-> {sid}, room |-> room, player_id |-> player_id,
     body |-> body]

\* emit(event, payload, room=room, include_self=False): to the connections
\* subscribed to the room (in subscriptions U), the sender left out
emit_room(event, sid, U, room, player_id, body) ==
    [event |-> event, to |-> {s \in Sids : << s, room >> \in U} \ {sid},
     room |-> room, player_id |-> player_id, body |-> body]

\* the handler returned (or raised) without touching anything
Dropped ==
    /\ out' = << >>
    /\ UNCHANGED << rooms, sid_map, player_meta, subs, conn, next_id,
                    joined_in, last_join, removed, left_count >>

(* -------------------------------- join --------------------------------- *)

\* mutant: the requested key is ignored
join_folder_first(data) ==
    FirstFolder

\* the folder (appearance key) on_join stores
join_folder(data) ==
    LET folder == clean_input_string(Get(data, "color"), << >>)
    IN  IF folder \notin FolderKeys THEN FirstFolder ELSE folder

\* the coordinates on_join stores: x and y are parsed in turn inside one
\* try; TypeError / ValueError sets both to 0.0, OverflowError is not caught
join_coords(data) ==
    LET xv == Get(data, "x")
        yv == Get(data, "y")
        fx == float(IF Truthy(xv) THEN xv ELSE Num(0))
        fy == float(IF Truthy(yv) THEN yv ELSE Num(0))
    IN  CASE fx.r = "caught" -> [r |-> "ok", x |-> 0, y |-> 0]
          [] fx.r = "overflow" -> [r |-> "overflow", x |-> 0, y |-> 0]
          [] fy.r = "caught" -> [r |-> "ok", x |-> 0, y |-> 0]
          [] fy.r = "overflow" -> [r |-> "overflow", x |-> 0, y |-> 0]
          [] OTHER -> [r |-> "ok", x |-> fx.v, y |-> fy.v]

\* mutant: the roster is read before the player is inserted
joined_roster_before(R, room, player_id, state) ==
    IF room \in DOMAIN R THEN R[room] ELSE << >>

\* the roster the joined acknowledgment carries: rooms[room], read after
\* the insertion (R is rooms before the insertion)
joined_roster(R, room, player_id, state) ==
    Put(IF room \in DOMAIN R THEN R[room] ELSE << >>, player_id, state)

\* mutant: the exception of join_room is swallowed and the handler goes on
join_returns_never(room, join_fails) ==
    room = << >>

\* on_join returns before it registers anything: the room is blank, or
\* join_room raised and the except branch returns
join_returns(room, join_fails) ==
    room = << >> \/ join_fails

\* on_join(data) on connection sid; join_fails: join_room raises
on_join(sid, data, join_fails) ==
    LET room == clean_input_string(Get(data, "room"), << >>)
        player_id == Uuid(next_id)
        name == clean_input_string(Get(data, "name"), << "Player" >>)
        folder == join_folder(data)
        color_hex == FOLDERS(folder)
        c == join_coords(data)
        state == [x |-> c.x, y |-> c.y, name |-> name, folder |-> folder,
                  color |-> color_hex]
        ensured == IF room \notin DOMAIN rooms THEN Put(rooms, room, << >>)
                   ELSE rooms
    IN  /\ sid \in conn
        /\ next_id <= MaxPlayers
        /\ ev' = [op |-> "join", sid |-> sid, data |-> data]
        /\ raised' = (room # << >> /\ join_fails)
        /\ IF join_returns(room, join_fails)
           THEN Dropped
           ELSE /\ subs' = join_room(sid, room)
                /\ sid_map' = Put(sid_map, sid, << room, player_id >>)
                /\ player_meta' = Put(player_meta, player_id,
                       [name |-> name, folder |-> folder, color_hex |-> color_hex])
                /\ next_id' = next_id + 1
                /\ joined_in' = Put(joined_in, player_id, [sid |-> sid, room |-> room])
                /\ last_join' = Put(last_join, sid, player_id)
                /\ left_count' = Put(left_count, player_id, 0)
                /\ UNCHANGED << conn, removed >>
                /\ IF c.r = "overflow"
                   THEN /\ rooms' = ensured
                        /\ out' = << >>
                   ELSE /\ rooms' = [ensured EXCEPT ![room] = Put(@, player_id, state)]
                        /\ out' = << emit_to("joined", sid, room, player_id,
                                       joined_roster(rooms, room, player_id, state)),
                                     emit_room("player_joined", sid, subs', room,
                                       player_id, state) >>

(* ----------------------------- pos_update ------------------------------ *)

\* mutant: a coordinate that does not parse is replaced by the stored one
pos_coords_defaulting(data, player_data) ==
    LET fx == float(GetOr(data, "x", Num(player_data.x)))
        fy == float(GetOr(data, "y", Num(player_data.y)))
    IN  [r |-> "ok",
         x |-> IF fx.r = "ok" THEN fx.v ELSE player_data.x,
         y |-> IF fy.r = "ok" THEN fy.v ELSE player_data.y]

\* the coordinates on_pos_update stores: a field that is absent falls back
\* to the stored one; any exception ends the handler before it writes
pos_coords(data, player_data) ==
    LET fx == float(GetOr(data, "x", Num(player_data.x)))
        fy == float(GetOr(data, "y", Num(player_data.y)))
    IN  CASE fx.r # "ok" -> [r |-> fx.r, x |-> player_data.x, y |-> player_data.y]
          [] fy.r # "ok" -> [r |-> fy.r, x |-> player_data.x, y |-> player_data.y]
          [] OTHER -> [r |-> "ok", x |-> fx.v, y |-> fy.v]

\* the name on_pos_update stores
pos_name(data, player_data) ==
    IF "name" \in DOMAIN data
    THEN clean_input_string(Get(data, "name"), player_data.name)
    ELSE player_data.name

\* mutant: the folder is stored without the membership test
pos_appearance_unchecked(data, player_data) ==
    LET f == clean_input_string(Get(data, "folder"), player_data.folder)
    IN  IF "folder" \in DOMAIN data
        THEN [folder |-> f,
              color |-> IF f \in FolderKeys THEN FOLDERS(f) ELSE player_data.color]
        ELSE [folder |-> player_data.folder, color |-> player_data.color]

\* mutant: the folder is tested and stored as sent, without strip()
pos_appearance_raw(data, player_data) ==
    LET f == IF Truthy(Get(data, "folder")) THEN str(Get(data, "folder"))
             ELSE player_data.folder
    IN  IF "folder" \in DOMAIN data /\ f \in FolderKeys
        THEN [folder |-> f, color |-> FOLDERS(f)]
        ELSE [folder |-> player_data.folder, color |-> player_data.color]

\* the folder and color on_pos_update stores
pos_appearance(data, player_data) ==
    LET f == clean_input_string(Get(data, "folder"), player_data.folder)
    IN  IF "folder" \in DOMAIN data /\ f \in FolderKeys
        THEN [folder |-> f, color |-> FOLDERS(f)]
        ELSE [folder |-> player_data.folder, color |-> player_data.color]

\* rooms.get(room, {}).get(player_id) is not None
present(R, room, player_id) ==
    room \in DOMAIN R /\ player_id \in DOMAIN R[room]

\* on_pos_update(data) on connection sid
on_pos_update(sid, data) ==
    LET room == Get(data, "room")
        player_id == Get(data, "player_id")
    IN  /\ sid \in conn
        /\ ev' = [op |-> "pos_update", sid |-> sid, data |-> data]
        /\ raised' = FALSE
        /\ IF ~isinstance_str(room) \/ ~isinstance_str(player_id)
           THEN Dropped
           ELSE IF ~present(rooms, room.s, player_id.s)
           THEN Dropped
           ELSE LET player_data == rooms[room.s][player_id.s]
                    c == pos_coords(data, player_data)
                    a == pos_appearance(data, player_data)
                    state == [x |-> c.x, y |-> c.y,
                              name |-> pos_name(data, player_data),
                              folder |-> a.folder, color |-> a.color]
                IN  IF c.r # "ok"
                    THEN Dropped
                    ELSE /\ rooms' = [rooms EXCEPT ![room.s][player_id.s] = state]
                         /\ out' = << emit_room("player_moved", sid, subs, room.s,
                                        player_id.s, [x |-> c.x, y |-> c.y]) >>
                         /\ UNCHANGED << sid_map, player_meta, subs, conn, next_id,
                                         joined_in, last_join, removed, left_count >>

(* ------------------------------- leave --------------------------------- *)

\* on_leave(data) on connection sid; leave_fails: leave_room raises
on_leave(sid, data, leave_fails) ==
    LET room == Get(data, "room")
        player_id == Get(data, "player_id")
    IN  /\ sid \in conn
        /\ ev' = [op |-> "leave", sid |-> sid, data |-> data]
        /\ raised' = /\ isinstance_str(room) /\ isinstance_str(player_id)
                      /\ present(rooms, room.s, player_id.s)
                      /\ leave_fails
        /\ IF ~(isinstance_str(room) /\ isinstance_str(player_id))
           THEN Dropped
           ELSE LET was_in_room == present(rooms, room.s, player_id.s)
                    after == pop_player_from_structures(rooms, sid_map, player_meta,
                                                        room.s, player_id.s)
                IN  /\ rooms' = after.rooms
                    /\ sid_map' = after.sid_map
                    /\ player_meta' = after.player_meta
                    /\ joined_in' = IF was_in_room THEN Del(joined_in, player_id.s) ELSE joined_in
                    /\ UNCHANGED << conn, next_id, last_join >>
                    /\ IF was_in_room
                       THEN /\ subs' = IF leave_fails THEN subs
                                       ELSE leave_room(sid, room.s)
                            /\ out' = << emit_room("player_left", sid, subs', room.s,
                                           player_id.s, << >>) >>
                            /\ removed' = removed \cup {player_id.s}
                            /\ left_count' = [left_count EXCEPT ![player_id.s] = @ + 1]
                       ELSE /\ out' = << >>
                            /\ UNCHANGED << subs, removed, left_count >>

(* ----------------------------- disconnect ------------------------------ *)

\* on_disconnect() on connection sid; when the handler has returned the
\* transport drops the connection's room subscriptions.  The handler may
\* run again for a connection that is already closed.
on_disconnect(sid) ==
    /\ ev' = [op |-> "disconnect", sid |-> sid, data |-> << >>]
    /\ raised' = FALSE
    /\ conn' = conn \ {sid}
    /\ subs' = {e \in subs : e[1] # sid}
    /\ UNCHANGED << next_id, last_join >>
    /\ IF sid \notin DOMAIN sid_map
       THEN /\ out' = << >>
            /\ UNCHANGED << rooms, sid_map, player_meta, joined_in, removed, left_count >>
       ELSE LET room == sid_map[sid][1]
                player_id == sid_map[sid][2]
                after == pop_player_from_structures(rooms, Del(sid_map, sid),
                                                    player_meta, room, player_id)
            IN  /\ rooms' = after.rooms
                /\ sid_map' = after.sid_map
                /\ player_meta' = after.player_meta
                /\ joined_in' = IF present(rooms, room, player_id)
                                THEN Del(joined_in, player_id) ELSE joined_in
                /\ removed' = IF present(rooms, room, player_id)
                              THEN removed \cup {player_id} ELSE removed
                /\ left_count' = [left_count EXCEPT ![player_id] = @ + 1]
                /\ out' = << emit_room("player_left", sid, subs, room,
                               player_id, << >>) >>

(* ------------------------- events of a run ----------------------------- *)

Lobby == << "lobby" >>
Cave == << "cave" >>

\* every player id a run can name
PlayerIds == { Uuid(k) : k \in 1..MaxPlayers }

\* Membership runs: two rooms, every connection, every player id.
\* join payloads: the room plain, padded or blank, and one whose x is an
\* integer too large for a float
JoinData ==
    { [room |-> r] : r \in {Str(Lobby), Str(<< " ", "cave" >>), Str(<< " " >>)} }
    \cup { [room |-> Str(Lobby), x |-> Big] }

\* pos_update payloads: a move of any player id, and one without player_id
PosData ==
    { [room |-> Str(Lobby), player_id |-> Str(p), x |-> Num(1)] : p \in PlayerIds }
    \cup { [room |-> Str(Lobby)] }

\* leave payloads
LeaveData ==
    { [room |-> Str(r), player_id |-> Str(p)] : r \in {Lobby, Cave}, p \in PlayerIds }

Next ==
    \E sid \in Sids :
        \/ \E data \in JoinData, join_fails \in BOOLEAN : on_join(sid, data, join_fails)
        \/ \E data \in PosData : on_pos_update(sid, data)
        \/ \E data \in LeaveData, leave_fails \in BOOLEAN : on_leave(sid, data, leave_fails)
        \/ on_disconnect(sid)

Spec == Init /\ [][Next]_vars

\* the dicts of D, and each of them with key k set to a value of V
Opt(D, k, V) == D \cup { Put(d, k, v) : d \in D, v \in V }

\* Payload runs: one room, and pos_update payloads for the first player id
\* with absent, valid and invalid x, y, name and folder.
JoinDataP ==
    { [room |-> Str(Lobby)],
      [room |-> Str(Lobby), name |-> Str(<< "Ann" >>),
       color |-> Str(<< "azul_escuro" >>), x |-> Num(1), y |-> Num(2)] }

PosDataP ==
    LET base == [room |-> Str(Lobby), player_id |-> Str(Uuid(1))]
        abc == Str(<< "abc" >>)
        two == Str(<< " ", "2" >>)
        bob == Str(<< "Bob" >>)
        ciano == Str(<< "ciano", " " >>)
        roxo == Str(<< "roxo" >>)
    IN  Opt({base}, "x", {Num(1), abc, Big})
        \cup Opt({Put(base, "y", two)}, "x", {Num(1), abc})
        \cup Opt(Opt({Put(base, "x", abc), Put(Put(base, "x", Num(1)), "y", None)},
                     "name", {bob}),
                 "folder", {ciano})
        \cup Opt({Put(base, "folder", roxo)}, "x", {Num(1)})
        \cup { Put(Put(base, "name", bob), "folder", ciano),
               Put(base, "folder", Str(<< "laranja" >>)),
               Put(base, "name", Str(<< " " >>)) }

LeaveDataP == { [room |-> Str(Lobby), player_id |-> Str(Uuid(1))] }

NextP ==
    \E sid \in Sids :
        \/ \E data \in JoinDataP : on_join(sid, data, FALSE)
        \/ \E data \in PosDataP : on_pos_update(sid, data)
        \/ \E data \in LeaveDataP : on_leave(sid, data, FALSE)
        \/ on_disconnect(sid)

SpecP == Init /\ [][NextP]_vars

\* Join runs: join payloads with the room absent, null, empty, blank or
\* valid, and the color absent, empty, valid, padded or unknown.
JoinDataJ ==
    LET azul == Str(<< "azul_escuro" >>)
    IN  Opt({[room |-> Str(Lobby)]}, "color",
            {azul, Str(<< "ciano", " " >>), Str(<< "roxo" >>), Str(<< >>)})
        \cup Opt({<< >>, [room |-> None], [room |-> Str(<< >>)],
                  [room |-> Str(<< " " >>)]}, "color", {azul})
        \cup { [room |-> Str(Lobby), color |-> azul, x |-> Big] }
PosDataJ == { [room |-> Str(Lobby), player_id |-> Str(Uuid(1)), x |-> Num(1)] }
LeaveDataJ == { [room |-> Str(Lobby), player_id |-> Str(Uuid(1))] }

NextJ ==
    \E sid \in Sids :
        \/ \E data \in JoinDataJ : on_join(sid, data, FALSE)
        \/ \E data \in PosDataJ : on_pos_update(sid, data)
        \/ \E data \in LeaveDataJ : on_leave(sid, data, FALSE)
        \/ on_disconnect(sid)

SpecJ == Init /\ [][NextJ]_vars

(* ============================== claims ================================= *)

\* the rooms that hold player id p
RoomsOf(p) == {r \in DOMAIN rooms : p \in DOMAIN rooms[r]}

\* the player id an event payload names, if it names one
NamedPid(d) ==
    IF "player_id" \in DOMAIN d /\ isinstance_str(d.player_id)
    THEN {d.player_id.s} ELSE {}

\* the emissions of a handler that carry the given event name
Emitted(o, events) == {i \in DOMAIN o : o[i].event \in events}

(* C1: a player id has a Player Directory entry if and only if it has a     *)
(* RoomPlayerState in exactly one room, and that room is the room of the    *)
(* join that created it; no player id sits in a room it did not join.       *)
C1_DirectoryIffOneRoom ==
    /\ \A p \in PlayerIds :
          p \in DOMAIN player_meta
            <=> /\ Cardinality(RoomsOf(p)) = 1
                /\ p \in DOMAIN joined_in
                /\ RoomsOf(p) = {joined_in[p].room}
    /\ \A r \in DOMAIN rooms : \A p \in DOMAIN rooms[r] :
          p \in DOMAIN joined_in /\ joined_in[p].room = r

(* C2: after every handler no room of the Room Registry has zero members,   *)
(* and the roster a join acknowledges holds none of the players removed     *)
(* before it.                                                               *)
C2_NoEmptyRoom ==
    /\ \A r \in DOMAIN rooms : DOMAIN rooms[r] # {}
    /\ \A i \in Emitted(out, {"joined"}) : DOMAIN out[i].body \cap removed = {}

(* C3: no orphaned players: once a connection has disconnected, no player   *)
(* created by a join on that connection remains in the Room Registry or     *)
(* the Player Directory.                                                    *)
C3_NoOrphanAfterDisconnect ==
    \A p \in DOMAIN joined_in :
        joined_in[p].sid \notin conn
            => p \notin DOMAIN player_meta /\ RoomsOf(p) = {}

(* C4: once a player has been removed by leave or disconnect, no later      *)
(* event emits player_moved or player_left carrying its id, and a later     *)
(* pos_update or leave naming it changes no registry and emits nothing.     *)
C4_SilentAfterRemoval ==
    [][\A p \in removed :
          /\ \A i \in Emitted(out', {"player_moved", "player_left"}) :
                out'[i].player_id # p
          /\ (ev'.op \in {"pos_update", "leave"} /\ p \in NamedPid(ev'.data))
                => (regs' = regs /\ out' = << >>)]_vars

\* a pos_update naming an already removed player has been handled while
\* another player is present
C4_Witness ==
    /\ ev.op = "pos_update"
    /\ NamedPid(ev.data) \cap removed # {}
    /\ \E q \in PlayerIds : RoomsOf(q) # {}

OwnersIn(r) ==
    {s \in DOMAIN sid_map : sid_map[s][1] = r /\ present(rooms, r, sid_map[s][2])}

(* C7: every player_joined, player_moved and player_left broadcast for a    *)
(* room is delivered to every connection other than the sender that owns    *)
(* a player present in the room, and never to the sender.                   *)
C7_BroadcastReachesOwners ==
    \A i \in Emitted(out, {"player_joined", "player_moved", "player_left"}) :
        /\ ev.sid \notin out[i].to
        /\ OwnersIn(out[i].room) \ {ev.sid} \subseteq out[i].to

(* C8: the RoomPlayerState and the membership of a player are changed or    *)
(* removed only by events of the connection bound to that player.           *)
C8_OnlyOwnerMutates ==
    [][\A r \in DOMAIN rooms : \A p \in DOMAIN rooms[r] :
          (~present(rooms', r, p) \/ rooms'[r][p] # rooms[r][p])
              => (ev'.sid \in DOMAIN sid_map /\ sid_map[ev'.sid] = << r, p >>)]_vars

\* x or y is present in the payload and float() raises TypeError / ValueError
Unparsable(d) ==
    \E k \in {"x", "y"} \cap DOMAIN d : float(d[k]).r = "caught"

(* C9: a pos_update whose x or y is present but does not parse as a number  *)
(* is dropped as a whole: nothing is emitted and the stored x, y, name,     *)
(* folder and color are unchanged, whatever else the payload carries.       *)
C9_UnparsableMoveDropped ==
    [][(ev'.op = "pos_update" /\ Unparsable(ev'.data))
          => (rooms' = rooms /\ out' = << >>)]_vars

\* a pos_update for a present player with a valid x, an unparsable y and a
\* name other than the stored one has been handled
C9_Witness ==
    /\ ev.op = "pos_update"
    /\ {"x", "y", "name"} \subseteq DOMAIN ev.data
    /\ float(ev.data.x).r = "ok"
    /\ float(ev.data.y).r = "caught"
    /\ \E p \in NamedPid(ev.data) :
          /\ present(rooms, ev.data.room.s, p)
          /\ rooms[ev.data.room.s][p].name # strip(ev.data.name.s)
          /\ rooms[ev.data.room.s][p].x # float(ev.data.x).v

\* the state of the player a pos_update payload names, in registry R
Target(R, d) == R[d.room.s][d.player_id.s]

\* the payload names a player present in its room
HitsPlayer(d) ==
    /\ {"room", "player_id"} \subseteq DOMAIN d
    /\ isinstance_str(d.room) /\ isinstance_str(d.player_id)
    /\ present(rooms, d.room.s, d.player_id.s)

\* every RoomPlayerState holds the color FOLDERS maps its folder to
ColorOfFolder ==
    \A r \in DOMAIN rooms : \A p \in DOMAIN rooms[r] :
        /\ rooms[r][p].folder \in FolderKeys
        /\ rooms[r][p].color = FOLDERS(rooms[r][p].folder)

(* C10 as stated: a pos_update carrying an appearance key outside the       *)
(* allowed set leaves the stored folder and color unchanged, and every      *)
(* stored color is the color of the stored folder.                          *)
C10_AsStated ==
    [][/\ ColorOfFolder'
       /\ (/\ ev'.op = "pos_update" /\ HitsPlayer(ev'.data)
           /\ "folder" \in DOMAIN ev'.data
           /\ str(ev'.data.folder) \notin FolderKeys)
            => /\ Target(rooms', ev'.data).folder = Target(rooms, ev'.data).folder
               /\ Target(rooms', ev'.data).color = Target(rooms, ev'.data).color]_vars

(* C10 amended: a pos_update carrying an appearance key that is outside the *)
(* allowed set once its surrounding whitespace is stripped leaves the       *)
(* stored folder and color unchanged, while the position, when x and y      *)
(* parse, is still stored and broadcast; every stored color is the color    *)
(* of the stored folder.                                                    *)
C10_InvalidKeyRetained ==
    [][/\ ColorOfFolder'
       /\ (/\ ev'.op = "pos_update" /\ HitsPlayer(ev'.data)
           /\ "folder" \in DOMAIN ev'.data
           /\ strip(str(ev'.data.folder)) \notin FolderKeys)
            => LET old == Target(rooms, ev'.data)
                   new == Target(rooms', ev'.data)
                   c == pos_coords(ev'.data, old)
               IN  /\ new.folder = old.folder
                   /\ new.color = old.color
                   /\ c.r = "ok"
                        => /\ new.x = c.x /\ new.y = c.y
                           /\ Emitted(out', {"player_moved"}) # {}]_vars

\* a pos_update with an unknown folder and a new x has been handled for a
\* player whose folder is not the default one
C10_Witness ==
    /\ ev.op = "pos_update" /\ HitsPlayer(ev.data)
    /\ {"folder", "x"} \subseteq DOMAIN ev.data
    /\ strip(str(ev.data.folder)) \notin FolderKeys
    /\ Target(rooms, ev.data).folder # FirstFolder
    /\ Target(rooms, ev.data).x = 1
    /\ Emitted(out, {"player_moved"}) # {}

\* a name, room or key input that is absent, null, empty or only whitespace
Blank(v) == ~Truthy(v) \/ strip(str(v)) = << >>

(* C11: join stores the stripped name when the input is not blank and       *)
(* "Player" when it is absent, empty or only whitespace; a pos_update that  *)
(* carries a name stores the stripped name when it is not blank and keeps   *)
(* the previous name when it is blank; no stored name is empty.             *)
C11_NameSanitised ==
    [][/\ (ev'.op = "join" /\ next_id' # next_id)
            => LET nm == Get(ev'.data, "name")
               IN  player_meta'[Uuid(next_id)].name
                      = IF Blank(nm) THEN << "Player" >> ELSE strip(str(nm))
       /\ (/\ ev'.op = "pos_update" /\ HitsPlayer(ev'.data)
           /\ "name" \in DOMAIN ev'.data /\ out' # << >>)
            => LET nm == ev'.data.name
               IN  Target(rooms', ev'.data).name
                      = IF Blank(nm) THEN Target(rooms, ev'.data).name
                        ELSE strip(str(nm))
       /\ \A r \in DOMAIN rooms' : \A p \in DOMAIN rooms'[r] :
             rooms'[r][p].name # << >>]_vars

(* C12: a join whose room is absent, null, empty or only whitespace is      *)
(* rejected with no effect: no room and no player id is registered, the    *)
(* connection is neither bound nor subscribed, and nothing is emitted.      *)
C12_BlankRoomRejected ==
    [][(ev'.op = "join" /\ Blank(Get(ev'.data, "room")))
          => /\ UNCHANGED << rooms, sid_map, player_meta, subs, next_id >>
             /\ out' = << >>]_vars

\* a join with a whitespace-only room was handled while the lobby had a player
C12_Witness ==
    /\ ev.op = "join"
    /\ Get(ev.data, "room") = Str(<< " " >>)
    /\ Lobby \in DOMAIN rooms
    /\ out = << >>

\* the appearance key a join is asked for, read literally / after stripping
RequestedKey(d) == str(Get(d, "color"))
StrippedKey(d) == strip(RequestedKey(d))

JoinTookEffect ==
    LET p == Uuid(next_id)
        r == strip(str(Get(ev'.data, "room")))
    IN  /\ next_id' = next_id + 1
        /\ p \in DOMAIN player_meta'
        /\ ev'.sid \in DOMAIN sid_map' /\ sid_map'[ev'.sid] = << r, p >>
        /\ present(rooms', r, p)

\* the leave of the step removed the named player and broadcast player_left
LeaveTookEffect ==
    LET p == ev'.data.player_id.s
        r == ev'.data.room.s
    IN  /\ present(rooms, r, p) /\ ~present(rooms', r, p)
        /\ p \notin DOMAIN player_meta'
        /\ \A s \in DOMAIN sid_map' : sid_map'[s] # << r, p >>
        /\ Len(out') = 1
        /\ out'[1].event = "player_left" /\ out'[1].player_id = p
        /\ out'[1].room = r

(* C14 as stated: when join_room or leave_room raises, the handler still    *)
(* completes its state change: the join registers, binds and inserts the    *)
(* player, the leave removes the player and broadcasts player_left.         *)
C14_AsStated ==
    [][raised' => /\ ev'.op = "join" => JoinTookEffect
                  /\ ev'.op = "leave" => LeaveTookEffect]_vars

(* C14: when leave_room raises, the leave still removes the player from     *)
(* the room, the directory and the identity registry and broadcasts         *)
(* player_left; when join_room raises, the join is abandoned: nothing is    *)
(* registered, bound, subscribed, inserted or emitted.                      *)
C14_TransportFailure ==
    [][raised' => /\ ev'.op = "join"
                      => /\ UNCHANGED << rooms, sid_map, player_meta, subs >>
                         /\ out' = << >>
                  /\ ev'.op = "leave" => LeaveTookEffect]_vars

\* leave_room raised in a leave: the player is gone, player_left was
\* emitted and the sender still holds its subscription
C14_Witness ==
    /\ raised /\ ev.op = "leave"
    /\ ev.data.player_id.s \in removed
    /\ << ev.sid, ev.data.room.s >> \in subs
    /\ out # << >> /\ out[1].event = "player_left"

\* the open connections bound (in sid_map) to player p of room r
BoundTo(S, r, p) == {s \in DOMAIN S : S[s] = << r, p >>}

(* C15: after a leave has removed a player from a room, the connection     *)
(* that was bound to that player holds no subscription to the room (so no   *)
(* later broadcast for the room reaches it); and a leave never takes the    *)
(* room subscription from a connection whose own player is still present.   *)
C15_LeaveUnsubscribesOwner ==
    [][(/\ ev'.op = "leave"
        /\ isinstance_str(Get(ev'.data, "room"))
        /\ isinstance_str(Get(ev'.data, "player_id"))
        /\ present(rooms, ev'.data.room.s, ev'.data.player_id.s))
          => LET r == ev'.data.room.s
                 p == ev'.data.player_id.s
             IN  /\ \A s \in BoundTo(sid_map, r, p) : << s, r >> \notin subs'
                 /\ \A s \in DOMAIN sid_map' :
                       (/\ sid_map'[s][1] = r
                        /\ present(rooms', r, sid_map'[s][2])
                        /\ << s, r >> \in subs)
                          => << s, r >> \in subs']_vars

(* C16: with every handler run to completion before the next one starts,    *)
(* the registry invariants hold at every event boundary: no room of the     *)
(* registry is empty, and a player id has a directory entry exactly when    *)
(* some room holds a RoomPlayerState for it.                                *)
C16_InvariantsAtEventBoundary ==
    /\ \A r \in DOMAIN rooms : DOMAIN rooms[r] # {}
    /\ \A p \in PlayerIds : (p \in DOMAIN player_meta) <=> (RoomsOf(p) # {})

(* C17: every sid_map entry binds its connection to a player that is        *)
(* present in the bound room, and every player_left a disconnect emits      *)
(* names a player that this disconnect removed from its room.               *)
C17_BindingsArePresent ==
    [][/\ \A s \in DOMAIN sid_map' :
             present(rooms', sid_map'[s][1], sid_map'[s][2])
       /\ (ev'.op = "disconnect" /\ out' # << >>)
             => /\ present(rooms, out'[1].room, out'[1].player_id)
                /\ ~present(rooms', out'[1].room, out'[1].player_id)]_vars

(* C18: for every present player the name, the appearance key and the       *)
(* color of its directory entry equal those of its RoomPlayerState.         *)
C18_DirectoryMatchesRoomState ==
    \A r \in DOMAIN rooms : \A p \in DOMAIN rooms[r] :
        /\ p \in DOMAIN player_meta
        /\ player_meta[p].name = rooms[r][p].name
        /\ player_meta[p].folder = rooms[r][p].folder
        /\ player_meta[p].color_hex = rooms[r][p].color

\* the player id a leave or disconnect step is about (<< >> when none)
Leaver ==
    CASE ev'.op = "leave" /\ isinstance_str(Get(ev'.data, "player_id"))
            -> ev'.data.player_id.s
      [] ev'.op = "disconnect" /\ ev'.sid \in DOMAIN sid_map
            -> sid_map[ev'.sid][2]
      [] OTHER -> << >>

(* C19: a leave or disconnect about player p leaves every other player's    *)
(* RoomPlayerState, directory entry and connection binding as they were;    *)
(* a pos_update changes nothing but the RoomPlayerState of the player it    *)
(* names: room membership, the directory and the bindings stay as they were.*)
C19_FrameOfRemovalAndMove ==
    [][/\ ev'.op \in {"leave", "disconnect"}
            => /\ \A r \in DOMAIN rooms : \A q \in DOMAIN rooms[r] \ {Leaver} :
                     present(rooms', r, q) /\ rooms'[r][q] = rooms[r][q]
               /\ \A q \in DOMAIN player_meta \ {Leaver} :
                     q \in DOMAIN player_meta' /\ player_meta'[q] = player_meta[q]
               /\ \A s \in DOMAIN sid_map :
                     sid_map[s][2] # Leaver
                        => s \in DOMAIN sid_map' /\ sid_map'[s] = sid_map[s]
       /\ ev'.op = "pos_update"
            => /\ sid_map' = sid_map /\ player_meta' = player_meta
               /\ DOMAIN rooms' = DOMAIN rooms
               /\ \A r \in DOMAIN rooms :
                     /\ DOMAIN rooms'[r] = DOMAIN rooms[r]
                     /\ \A q \in DOMAIN rooms[r] :
                           << Str(r), Str(q) >> # << Get(ev'.data, "room"),
                                                     Get(ev'.data, "player_id") >>
                              => rooms'[r][q] = rooms[r][q]]_vars

\* a leave has removed its player from a room where another player, bound
\* to a connection, is still present
C19_Witness ==
    /\ ev.op = "leave"
    /\ ev.data.player_id.s \in removed
    /\ \E s \in DOMAIN sid_map :
          /\ sid_map[s][1] = ev.data.room.s
          /\ sid_map[s][2] # ev.data.player_id.s
          /\ present(rooms, sid_map[s][1], sid_map[s][2])

====
